---- MODULE Spec2Model ----
(***************************************************************************)
(* Streaming chat session of the community chatbot.                        *)
(*                                                                         *)
(*   backend/internal/handlers/chat.go   ChatHandler: the dedup map, its   *)
(*       reader/writer lock, the periodic sweep, StreamChat and the body   *)
(*       stream writer                                                     *)
(*   frontend/src/hooks/agui/useAGUIChat.ts   the consumer hook            *)
(*   frontend/src/app/simple/page.tsx         useChatStore                 *)
(*   frontend/src/components/chat/ChatInterface.tsx   ErrorDisplay         *)
(*   frontend/src/utils/eventSource.ts   SafeEventSource and               *)
(*       detectEventSourceLoop                                             *)
(*                                                                         *)
(* The specifications share the variables below; each leaves the           *)
(* variables of the other parts unchanged:                                 *)
(*   SpecDedup     requests handled one after another, clock, sweep        *)
(*   SpecConc      two request workers interleaving on the dedup map       *)
(*   SpecWriter    the body stream writer of an accepted request           *)
(*   SpecProducer  the same with panics; SpecProducerFair adds fairness    *)
(*   SpecPanic     the request workers with their stream writers           *)
(*   SpecConsumer  the hook, its store and its EventSource objects         *)
(*   SpecFold      the hook on streams that carry activities and images    *)
(*   SpecTools     the hook on streams that carry tool executions          *)
(*   SpecSession   handler, writers and hook composed; SpecSessionFair     *)
(*                 adds fairness                                           *)
(*   SpecSafe      one SafeEventSource with its EventSources and timers    *)
(*   SpecLoop      a caller of detectEventSourceLoop                       *)
(*   SpecTeardown  the hook from mount to unmount, with a SafeEventSource  *)
(***************************************************************************)
EXTENDS Integers, Sequences, FiniteSets, TLC

\* ------------------------------------------------------------------------
\* Bounds of the model
\* ------------------------------------------------------------------------
\* last clock value (seconds) of the dedup specifications
MaxTime == 21
\* last clock value (seconds) of the two-worker specification
MaxTimeConc == 11
\* words of a generated response the stream writer is followed through
MaxWords == 2
\* messages the log of the consumer is followed up to
MaxLog == 3
\* TEXT_MESSAGE_CONTENT events the consumer is followed through
MaxChunks == 2
\* sendMessage calls that are not ignored
MaxSends == 2
\* ACTIVITIES_FOUND and IMAGES_LOADED events the consumer is followed through
MaxBatches == 2
\* EventSource objects one SafeEventSource is followed through
MaxSources == 4
\* calls of detectEventSourceLoop for one url in one time window
MaxCalls == 7
\* last value of Date.now() for detectEventSourceLoop, in time units
MaxLoopTime == 3

\* ------------------------------------------------------------------------
\* Program constants
\* ------------------------------------------------------------------------
\* the dedup window and the sweep age, in seconds
Window == 10

StatusOK == 200
StatusBadRequest == 400
StatusTooManyRequests == 429

\* ------------------------------------------------------------------------
\* Request texts
\* ------------------------------------------------------------------------
\* values of the "message" query parameter as StreamChat reads them
RawMessages == {"", "trail%20food", "trail+food", "%zz"}

\* url.QueryUnescape: %XX is decoded, '+' becomes a space, a malformed
\* escape is an error
QueryUnescape(message) ==
    CASE message = "trail%20food" -> [err |-> FALSE, value |-> "trail food"]
      [] message = "trail+food"   -> [err |-> FALSE, value |-> "trail food"]
      [] message = "%zz"          -> [err |-> TRUE,  value |-> ""]
      [] OTHER                    -> [err |-> FALSE, value |-> message]

\* decodedMessage of StreamChat: the unescaped text, or the original on error
decodedMessage(message) ==
    IF QueryUnescape(message).err THEN message
    ELSE QueryUnescape(message).value

DecodedTexts == {decodedMessage(m) : m \in RawMessages \ {""}}

VARIABLES
    \* ---- ChatHandler ----
    now,             \* time.Now(), in seconds
    recentMessages,  \* map[string]time.Time, a function on the keys present
    \* ---- sequential handling (SpecDedup) ----
    lastAccepted,    \* history: decoded text -> time of its last accepted request
    resp             \* history: the response to the last request handled

VARIABLES
    \* ---- request workers and messagesMutex (SpecConc) ----
    pc,              \* worker -> position in StreamChat
    wmsg,            \* worker -> the "message" parameter of its request
    wdup,            \* worker -> result of its isRecentMessage call
    wat,             \* worker -> time at which its recordMessage wrote
    readers,         \* holders of messagesMutex.RLock
    writer           \* holders of messagesMutex.Lock (at most one)

VARIABLES
    \* ---- the body stream writers of the request workers (SpecPanic) ----
    wspc,            \* worker -> position of its body stream writer
    wsent,           \* worker -> events its writer has written and flushed
    wpanic,          \* worker -> its writer is panicking
    delivered,       \* worker -> events of its stream the consumer has received
    serverUp         \* the server process is running

VARIABLES
    \* ---- body stream writer of one accepted request (SpecProducer) ----
    spc,             \* position in the body stream writer
    stext,           \* decodedMessage captured by the writer
    swords,          \* words: strings.Fields(response)
    sidx,            \* i, the index of the word loop
    written,         \* events for which writeEvent returned nil, in order
    werr,            \* the sticky error of the bufio.Writer
    sfail            \* history: "none", "write" (a writeEvent failed) or "panic"

VARIABLES
    \* ---- one SafeEventSource instance (utils/eventSource.ts) ----
    sesSource,       \* this.eventSource: 0 for null, else the index of the EventSource
    sesStates,       \* readyState of every EventSource the instance created
    sesManual,       \* this.isManuallyDisconnected
    sesAttempts,     \* this.reconnectAttempts
    sesTimeout,      \* this.reconnectTimeout: 0 for null, else a timer id
    sesTimers,       \* the timers of the instance that are pending in the browser
    sesMax,          \* this.config.maxReconnectAttempts after the constructor
    sesOpenedBy,     \* history: per EventSource, "connect" or "timer"
    sesScheduled,    \* history: reconnections scheduled so far
    sesLast,         \* history: the last operation and what it started from
    \* ---- the caller of detectEventSourceLoop ----
    eventCounts,     \* the Map passed to detectEventSourceLoop
    loopNow,         \* Date.now()
    loopCalls,       \* history: per url and window, the calls made
    loopResult       \* history: the last call and what it returned

VARIABLES
    \* ---- useChatStore ----
    messages,        \* the message log
    isStreaming,     \* the global streaming flag
    error,           \* the store's error
    activities,      \* the store's activities
    \* ---- useAGUIChat ----
    isConnected,
    connectionError,
    eventSourceRef,          \* 0 for null, else the index of the EventSource held
    currentMessageRef,       \* the text accumulated so far
    currentMessageIdRef,     \* id of the accumulation target, <<>> for ''
    isManuallyDisconnected,
    reconnectTimeoutRef,     \* TRUE when a timer is pending
    endpoint,                \* the endpoint prop
    \* ---- the EventSource objects created by the hook ----
    esState,         \* readyState of every EventSource created, in creation order
    \* ---- history ----
    nSend,           \* sendMessage calls that were not ignored
    nStart,          \* STREAMING_START events handled
    inStream,        \* a STREAMING_START was handled and no terminal event,
                     \* transport error or reconnect() since
    nText,           \* TEXT_MESSAGE_CONTENT events handled
    expected,        \* the contents of the TEXT_MESSAGE_CONTENT events of that
                     \* stream, concatenated in arrival order
    last,            \* the last operation of the hook and the state it started from
    nData,           \* ACTIVITIES_FOUND and IMAGES_LOADED events handled
    gotActivities,   \* the activities of the ACTIVITIES_FOUND events of that stream
    gotImages,       \* the images of the IMAGES_LOADED events of that stream
    skipped,         \* a frame of that stream was skipped
    \* ChatInterface
    toolExecutions,  \* the state toolExecutions: names of the active tools
    \* history
    toolLast         \* per tool name, the type of its latest tool event

dedupVars == <<now, recentMessages, lastAccepted, resp>>
streamVars == <<wspc, wsent, wpanic, delivered, serverUp>>
concVars == <<pc, wmsg, wdup, wat, readers, writer, streamVars>>
prodVars == <<spc, stext, swords, sidx, written, werr, sfail>>
storeVars == <<messages, isStreaming, error, activities>>
hookVars == <<isConnected, connectionError, eventSourceRef, currentMessageRef,
              currentMessageIdRef, isManuallyDisconnected, reconnectTimeoutRef,
              endpoint, esState>>
histVars == <<nSend, nStart, nText, inStream, expected, last>>
dataVars == <<nData, gotActivities, gotImages, skipped>>
toolVars == <<toolExecutions, toolLast>>
consVars == <<storeVars, hookVars, histVars, dataVars, toolVars>>
sesVars == <<sesSource, sesStates, sesManual, sesAttempts, sesTimeout,
             sesTimers, sesMax, sesOpenedBy, sesScheduled, sesLast>>
loopVars == <<eventCounts, loopNow, loopCalls, loopResult>>
safeVars == <<sesVars, loopVars>>
vars == <<dedupVars, concVars, prodVars, consVars, safeVars>>

\* ------------------------------------------------------------------------
\* ChatHandler: the dedup map
\* ------------------------------------------------------------------------
\* a comparison that also holds for equal instants
Before_orEqual(t, u) == t <= u

\* time.Time.Before
Before(t, u) == t < u

\* isRecentMessage with the boundary second counted as recent
isRecentMessage_inclusive(map, message, t) ==
    IF message \in DOMAIN map THEN t - map[message] <= Window ELSE FALSE

\* isRecentMessage: the text is in the map and was recorded less than
\* Window seconds ago
isRecentMessage(map, message, t) ==
    IF message \in DOMAIN map THEN t - map[message] < Window ELSE FALSE

\* recordMessage: h.recentMessages[message] = time.Now()
recordMessage(map, message, t) ==
    [k \in (DOMAIN map) \cup {message} |-> IF k = message THEN t ELSE map[k]]

\* one tick of cleanupOldMessages: delete the entries recorded before the cutoff
cleanupOldMessages(map, t) ==
    LET cutoff == t - Window
        keep == {k \in DOMAIN map : ~Before(map[k], cutoff)}
    IN [k \in keep |-> map[k]]

NoResp == [raw |-> "", text |-> "", status |-> 0, at |-> 0, stream |-> FALSE,
           prev |-> {}, entry |-> {}, refused |-> FALSE]

\* StreamChat up to the point where the response is decided: 400 for an
\* empty parameter, 429 for a recent duplicate, otherwise the text is
\* recorded and the body stream writer is installed
StreamChatStatus(map, message, t) ==
    IF message = "" THEN StatusBadRequest
    ELSE IF isRecentMessage(map, decodedMessage(message), t)
         THEN StatusTooManyRequests
         ELSE StatusOK

\* a StreamChat that records every request that carries a text
StreamChatMap_refresh(map, message, t) ==
    IF message # ""
    THEN recordMessage(map, decodedMessage(message), t)
    ELSE map

StreamChatMap(map, message, t) ==
    IF StreamChatStatus(map, message, t) = StatusOK
    THEN recordMessage(map, decodedMessage(message), t)
    ELSE map

\* ------------------------------------------------------------------------
\* SpecDedup: requests handled one after another
\* ------------------------------------------------------------------------
Workers == {"w1", "w2"}
Sweeper == "sweeper"

InitHandler ==
    /\ now = 0
    /\ recentMessages = <<>>
    /\ lastAccepted = <<>>
    /\ resp = NoResp

InitWorkers ==
    /\ pc = [w \in Workers |-> "idle"]
    /\ wmsg = [w \in Workers |-> ""]
    /\ wdup = [w \in Workers |-> FALSE]
    /\ wat = [w \in Workers |-> 0]
    /\ readers = {}
    /\ writer = {}
    /\ wspc = [w \in Workers |-> "none"]
    /\ wsent = [w \in Workers |-> 0]
    /\ wpanic = [w \in Workers |-> FALSE]
    /\ delivered = [w \in Workers |-> 0]
    /\ serverUp = TRUE

InitWriter ==
    /\ spc = "none"
    /\ stext = ""
    /\ swords = <<>>
    /\ sidx = 0
    /\ written = <<>>
    /\ werr = FALSE
    /\ sfail = "none"

undefined == "undefined"

\* the tool names of TOOL_EXECUTION events
ToolNames == {"search", "images"}
ValidEndpoint == "http://localhost:8080/api/v1/chat/stream"
Endpoints == {ValidEndpoint, "/api/v1/chat/stream"}

NoOp == [op |-> "init", len |-> 0, errors |-> 0, opened |-> 0, es |-> 0,
         streaming |-> FALSE, inStream |-> FALSE, connected |-> FALSE,
         target |-> <<>>, payload |-> <<>>,
         log |-> <<>>, states |-> <<>>, content |-> <<>>, complete |-> FALSE,
         error |-> "undefined", connectionError |-> "undefined"]

\* config.maxReconnectAttempts as the caller passes it: absent, or a number
Configs == {<<>>, <<0>>, <<1>>, <<2>>}

\* the constructor: { maxReconnectAttempts: 3, ..., ...config }
constructor(config) == IF config = <<>> THEN 3 ELSE config[1]

\* a SafeEventSource right after new SafeEventSource(url, config)
InitSource(config) ==
    /\ sesSource = 0
    /\ sesStates = <<>>
    /\ sesManual = FALSE
    /\ sesAttempts = 0
    /\ sesTimeout = 0
    /\ sesTimers = {}
    /\ sesMax = constructor(config)
    /\ sesOpenedBy = <<>>
    /\ sesScheduled = 0
    /\ sesLast = [op |-> "new", opened |-> 0, scheduled |-> 0, attempts |-> 0,
                  source |-> 0, timers |-> {}]

\* the Map of the caller of detectEventSourceLoop, empty
InitLoop ==
    /\ eventCounts = <<>>
    /\ loopNow = 0
    /\ loopCalls = <<>>
    /\ loopResult = [url |-> "", window |-> 0, flagged |-> FALSE]

InitSafe ==
    /\ InitSource(<<>>)
    /\ InitLoop

\* the hook after its first render, with the store's initial state
InitHook ==
    /\ messages = <<>>
    /\ isStreaming = FALSE
    /\ error = undefined
    /\ activities = <<>>
    /\ nData = 0
    /\ gotActivities = {}
    /\ gotImages = {}
    /\ skipped = FALSE
    /\ toolExecutions = {}
    /\ toolLast = [t \in ToolNames |-> "none"]
    /\ isConnected = FALSE
    /\ connectionError = undefined
    /\ eventSourceRef = 0
    /\ currentMessageRef = <<>>
    /\ currentMessageIdRef = <<>>
    /\ isManuallyDisconnected = FALSE
    /\ reconnectTimeoutRef = FALSE
    /\ esState = <<>>
    /\ nSend = 0
    /\ nStart = 0
    /\ inStream = FALSE
    /\ nText = 0
    /\ expected = <<>>
    /\ last = NoOp

InitDedup ==
    /\ InitHandler
    /\ InitWorkers
    /\ InitWriter
    /\ InitHook
    /\ InitSafe
    /\ endpoint = ValidEndpoint

\* the clock advances
Tick ==
    /\ now < MaxTime
    /\ now' = now + 1
    /\ UNCHANGED <<recentMessages, lastAccepted, resp>>
    /\ UNCHANGED <<concVars, prodVars, safeVars, consVars>>

\* the ticker of cleanupOldMessages fires
Sweep ==
    /\ recentMessages' = cleanupOldMessages(recentMessages, now)
    /\ recentMessages' # recentMessages
    /\ UNCHANGED <<now, lastAccepted, resp>>
    /\ UNCHANGED <<concVars, prodVars, safeVars, consVars>>

\* one request is handled from start to end
StreamChat(message) ==
    LET text == decodedMessage(message)
        status == StreamChatStatus(recentMessages, message, now)
        map2 == StreamChatMap(recentMessages, message, now)
    IN /\ recentMessages' = map2
       /\ lastAccepted' = IF status = StatusOK
                          THEN recordMessage(lastAccepted, text, now)
                          ELSE lastAccepted
       /\ resp' = [raw |-> message, text |-> text, status |-> status,
                   at |-> now, stream |-> (status = StatusOK),
                   prev |-> IF text \in DOMAIN lastAccepted
                            THEN {lastAccepted[text]} ELSE {},
                   entry |-> IF text \in DOMAIN map2 THEN {map2[text]} ELSE {},
                   refused |-> (/\ resp.text = text
                                /\ resp.status = StatusTooManyRequests)]
       /\ UNCHANGED now
       /\ UNCHANGED <<concVars, prodVars, safeVars, consVars>>

NextDedup ==
    \/ Tick
    \/ Sweep
    \/ \E message \in RawMessages : StreamChat(message)

SpecDedup == InitDedup /\ [][NextDedup]_vars

\* ------------------------------------------------------------------------
\* C1: a request carrying a decoded text is rejected with 429 and opens no
\* stream exactly when an accepted request carrying that text was recorded
\* less than 10 seconds earlier; otherwise it is accepted, recorded with the
\* current time and opens a stream, whatever sweeps ran in between.
\* ------------------------------------------------------------------------
C1_DedupWindow ==
    resp.status \in {StatusOK, StatusTooManyRequests} =>
        LET dup == \E p \in resp.prev : resp.at - p < Window
        IN /\ (resp.status = StatusTooManyRequests) <=> dup
           /\ resp.status = StatusTooManyRequests => ~resp.stream
           /\ resp.status = StatusOK => resp.stream /\ resp.entry = {resp.at}

\* a duplicate rejected in the last second of the window
C1_Witness ==
    /\ resp.status = StatusTooManyRequests
    /\ resp.prev = {resp.at - (Window - 1)}

\* a text accepted again once the window has elapsed and a sweep removed it
C1_WitnessAfter ==
    /\ resp.status = StatusOK
    /\ \E p \in resp.prev : resp.at - p = Window

\* ------------------------------------------------------------------------
\* C13: a request answered 400 or 429 installs no stream writer and leaves
\* the dedup map as it was; a rejected duplicate keeps the entry's
\* timestamp, which is the time of the last accepted request for the text.
\* ------------------------------------------------------------------------
C13_Rejected ==
    /\ resp.status \in {StatusBadRequest, StatusTooManyRequests} => ~resp.stream
    /\ resp.status = StatusTooManyRequests =>
          /\ resp.entry = resp.prev
          /\ resp.prev # {}

C13_MapKept ==
    \A message \in RawMessages :
        (/\ StreamChat(message)
         /\ resp'.status \in {StatusBadRequest, StatusTooManyRequests})
        => recentMessages' = recentMessages

C13_RejectedFrame == []C13_Rejected /\ [][C13_MapKept]_vars

\* a text accepted again exactly when its window ended, although the
\* request before it was a duplicate of it rejected inside the window
C13_Witness ==
    /\ resp.status = StatusOK
    /\ resp.refused
    /\ resp.prev = {resp.at - Window}

\* a second duplicate rejected while the map holds the entry
C13_WitnessRejected ==
    /\ resp.status = StatusTooManyRequests
    /\ resp.refused
    /\ resp.text \in DOMAIN recentMessages
\* ------------------------------------------------------------------------
\* SpecConc: two request workers and the sweeper interleave on the map.
\* Each worker is the goroutine of one request and runs StreamChat once;
\* every step below is one lock operation or one access of the map made
\* while the lock is held.
\* ------------------------------------------------------------------------
InitConc ==
    /\ InitHandler
    /\ InitWorkers
    /\ InitWriter
    /\ InitHook
    /\ InitSafe
    /\ endpoint = ValidEndpoint

TickConc ==
    /\ now < MaxTimeConc
    /\ now' = now + 1
    /\ UNCHANGED <<recentMessages, lastAccepted, resp>>
    /\ UNCHANGED <<pc, wmsg, wdup, wat, readers, writer>>
    /\ UNCHANGED <<prodVars, safeVars, consVars, streamVars>>

\* StreamChat entry: read the parameter; an empty one is answered with 400
Begin(w, message) ==
    /\ pc[w] = "idle"
    /\ wmsg' = [wmsg EXCEPT ![w] = message]
    /\ wdup' = [wdup EXCEPT ![w] = FALSE]
    /\ pc' = [pc EXCEPT ![w] = IF message = "" THEN "rejected400" ELSE "rlock"]
    /\ UNCHANGED <<wat, readers, writer>>
    /\ UNCHANGED <<dedupVars, prodVars, safeVars, consVars, streamVars>>

\* isRecentMessage: h.messagesMutex.RLock()
RLock(w) ==
    /\ pc[w] = "rlock"
    /\ writer = {}
    /\ readers' = readers \cup {w}
    /\ pc' = [pc EXCEPT ![w] = "lookup"]
    /\ UNCHANGED <<wmsg, wdup, wat, writer>>
    /\ UNCHANGED <<dedupVars, prodVars, safeVars, consVars, streamVars>>

\* isRecentMessage: the lookup and the comparison with time.Since
Lookup(w) ==
    /\ pc[w] = "lookup"
    /\ wdup' = [wdup EXCEPT ![w] =
                  isRecentMessage(recentMessages, decodedMessage(wmsg[w]), now)]
    /\ pc' = [pc EXCEPT ![w] = "runlock"]
    /\ UNCHANGED <<wmsg, wat, readers, writer>>
    /\ UNCHANGED <<dedupVars, prodVars, safeVars, consVars, streamVars>>

\* isRecentMessage: the deferred RUnlock; StreamChat answers 429 on true
RUnlock(w) ==
    /\ pc[w] = "runlock"
    /\ readers' = readers \ {w}
    /\ pc' = [pc EXCEPT ![w] = IF wdup[w] THEN "rejected429" ELSE "lock"]
    /\ UNCHANGED <<wmsg, wdup, wat, writer>>
    /\ UNCHANGED <<dedupVars, prodVars, safeVars, consVars, streamVars>>

\* a Lock() that does not wait for the readers
CanLock_overReaders(r, wr) == wr = {}

\* messagesMutex.Lock() returns when no reader and no writer holds the mutex
CanLock(r, wr) == wr = {} /\ r = {}

\* recordMessage: h.messagesMutex.Lock()
Lock(w) ==
    /\ pc[w] = "lock"
    /\ CanLock(readers, writer)
    /\ writer' = {w}
    /\ pc' = [pc EXCEPT ![w] = "store"]
    /\ UNCHANGED <<wmsg, wdup, wat, readers>>
    /\ UNCHANGED <<dedupVars, prodVars, safeVars, consVars, streamVars>>

\* recordMessage: the map write
Store(w) ==
    /\ pc[w] = "store"
    /\ recentMessages' = recordMessage(recentMessages, decodedMessage(wmsg[w]), now)
    /\ wat' = [wat EXCEPT ![w] = now]
    /\ pc' = [pc EXCEPT ![w] = "unlock"]
    /\ UNCHANGED <<wmsg, wdup, readers, writer>>
    /\ UNCHANGED <<now, lastAccepted, resp>>
    /\ UNCHANGED <<prodVars, safeVars, consVars, streamVars>>

\* recordMessage: the deferred Unlock; StreamChat then installs the body
\* stream writer, which opens the stream
Unlock(w) ==
    /\ pc[w] = "unlock"
    /\ writer' = writer \ {w}
    /\ pc' = [pc EXCEPT ![w] = "streaming"]
    /\ UNCHANGED <<wmsg, wdup, wat, readers>>
    /\ UNCHANGED <<dedupVars, prodVars, safeVars, consVars, streamVars>>

\* cleanupOldMessages: h.messagesMutex.Lock() when the ticker fires
SweepLock ==
    /\ CanLock(readers, writer)
    /\ writer' = {Sweeper}
    /\ UNCHANGED <<pc, wmsg, wdup, wat, readers>>
    /\ UNCHANGED <<dedupVars, prodVars, safeVars, consVars, streamVars>>

\* cleanupOldMessages: the deletions and h.messagesMutex.Unlock()
SweepUnlock ==
    /\ writer = {Sweeper}
    /\ recentMessages' = cleanupOldMessages(recentMessages, now)
    /\ writer' = {}
    /\ UNCHANGED <<pc, wmsg, wdup, wat, readers>>
    /\ UNCHANGED <<now, lastAccepted, resp>>
    /\ UNCHANGED <<prodVars, safeVars, consVars, streamVars>>

NextConc ==
    \/ TickConc
    \/ SweepLock
    \/ SweepUnlock
    \/ \E w \in Workers : \E message \in RawMessages : Begin(w, message)
    \/ \E w \in Workers : RLock(w)
    \/ \E w \in Workers : Lookup(w)
    \/ \E w \in Workers : RUnlock(w)
    \/ \E w \in Workers : Lock(w)
    \/ \E w \in Workers : Store(w)
    \/ \E w \in Workers : Unlock(w)

SpecConc == InitConc /\ [][NextConc]_vars

\* ------------------------------------------------------------------------
\* C2: of two requests that carry the same decoded text and are handled
\* concurrently, exactly one opens a stream and the other is answered 429;
\* the two never both reach the stream writer (STREAMING_START).
\* Stated on the model: two workers never both stream the same text with
\* recordings less than the window apart.
\* ------------------------------------------------------------------------
C2_OneStreamPerWindow ==
    \A v, w \in Workers :
        (/\ v # w
         /\ pc[v] = "streaming"
         /\ pc[w] = "streaming"
         /\ decodedMessage(wmsg[v]) = decodedMessage(wmsg[w]))
        => (wat[v] - wat[w] >= Window \/ wat[w] - wat[v] >= Window)

\* ------------------------------------------------------------------------
\* C19: every access to the dedup map is made under messagesMutex: a lookup
\* holds the read lock, an insert and the sweep hold the write lock; while
\* recordMessage or the sweep is inside its critical section nobody else is
\* inside one, and a worker outside its critical sections holds no lock.
\* ------------------------------------------------------------------------
ReadersInside == {w \in Workers : pc[w] \in {"lookup", "runlock"}}
WritersInside ==
    {w \in Workers : pc[w] \in {"store", "unlock"}} \cup (writer \cap {Sweeper})

C19_LockDiscipline ==
    /\ readers = ReadersInside
    /\ writer = WritersInside
    /\ \A a \in WritersInside : ReadersInside \cup WritersInside = {a}

\* recordMessage of one request inside its critical section while the
\* other request waits for the read lock
C19_Witness ==
    /\ pc["w1"] = "store"
    /\ pc["w2"] = "rlock"
    /\ writer = {"w1"}

\* two lookups inside their critical sections at once
C19_WitnessReaders ==
    /\ ReadersInside = Workers
\* ------------------------------------------------------------------------
\* SpecProducer: the body stream writer installed by StreamChat.
\* A Go string is a sequence of pieces (words and single spaces), so that
\* word + " " is a concatenation.
\* ------------------------------------------------------------------------
\* texts of accepted requests the writer is run on
WriterTexts == DecodedTexts \cup {"Bike ride", "lets eat", "hiking"}

\* strings.Contains(strings.ToLower(message), keyword), as the set of the
\* keywords of generateResponse the lowered text contains
ContainedKeywords(message) ==
    CASE message = "trail food" -> {"trail", "food"}
      [] message = "hiking"     -> {"hiking"}
      [] message = "Bike ride"  -> {"bike"}
      [] message = "lets eat"   -> {"eat"}
      [] OTHER                  -> {}

\* generateResponse: the first matching branch decides the response
generateResponse(message) ==
    LET has(k) == k \in ContainedKeywords(message)
    IN IF has("hiking") \/ has("trail") THEN "hiking"
       ELSE IF has("cycling") \/ has("bike") THEN "cycling"
       ELSE IF has("restaurant") \/ has("food") \/ has("eat") THEN "restaurant"
       ELSE "default"

\* the leading words of each response text
ResponseWords(response) ==
    CASE response = "hiking"     -> <<"I", "found", "some", "great", "hiking">>
      [] response = "cycling"    -> <<"There", "are", "several", "excellent", "cycling">>
      [] response = "restaurant" -> <<"Here", "are", "some", "great", "local">>
      [] OTHER                   -> <<"Thanks", "for", "your", "message!", "I'm">>

Min(a, b) == IF a < b THEN a ELSE b

\* strings.Fields(response), followed through its first MaxWords words
Fields(response) ==
    SubSeq(ResponseWords(response), 1, Min(MaxWords, Len(ResponseWords(response))))

StreamingStartEvent(id) == [type |-> "STREAMING_START", messageId |-> id]
TextMessageEvent(c, done) ==
    [type |-> "TEXT_MESSAGE_CONTENT", content |-> c, isComplete |-> done]
StreamingEndEvent == [type |-> "STREAMING_END"]

\* a word loop that appends the space to the last word as well
WordEvent_trailing(words, i) ==
    TextMessageEvent(<<words[i + 1], " ">>, i = Len(words) - 1)

\* the event the word loop builds for words[i] (i counts from 0 as in Go)
WordEvent(words, i) ==
    TextMessageEvent(IF i < Len(words) - 1 THEN <<words[i + 1], " ">>
                                           ELSE <<words[i + 1]>>,
                     i = Len(words) - 1)

\* a writer that keeps the stream open after the end event
AfterFlushEnd_wait == "flush_end"

\* where the writer continues once the end event is flushed: the function
\* returns and its deferred function runs
AfterFlushEnd == "deferred"

InitProducer ==
    /\ InitHandler
    /\ InitWorkers
    /\ InitWriter
    /\ InitHook
    /\ InitSafe
    /\ endpoint = ValidEndpoint

\* StreamChat accepted a request and its body stream writer starts
StartWriter(text) ==
    /\ spc = "none"
    /\ spc' = "start"
    /\ stext' = text
    /\ UNCHANGED <<swords, sidx, written, werr, sfail>>
    /\ UNCHANGED <<dedupVars, concVars, consVars, safeVars>>

\* writeEvent(w, StreamingStartEvent{...}); on error: log and return
WriteStart ==
    /\ spc = "start"
    /\ IF werr
       THEN /\ spc' = "deferred"
            /\ sfail' = "write"
            /\ UNCHANGED written
       ELSE /\ spc' = "flush_start"
            /\ written' = Append(written, StreamingStartEvent("msg-ns"))
            /\ UNCHANGED sfail
    /\ UNCHANGED <<stext, swords, sidx, werr>>
    /\ UNCHANGED <<dedupVars, concVars, consVars, safeVars>>

\* w.Flush() after the start event; its error is not looked at, but the
\* writer keeps it and fails every later write
FlushStart ==
    /\ spc = "flush_start"
    /\ \E ok \in BOOLEAN : werr' = (werr \/ ~ok)
    /\ spc' = "generate"
    /\ UNCHANGED <<stext, swords, sidx, written, sfail>>
    /\ UNCHANGED <<dedupVars, concVars, consVars, safeVars>>

\* response := h.generateResponse(decodedMessage); words := strings.Fields
Generate ==
    /\ spc = "generate"
    /\ swords' = Fields(generateResponse(stext))
    /\ sidx' = 0
    /\ spc' = IF Len(swords') = 0 THEN "end" ELSE "text"
    /\ UNCHANGED <<stext, written, werr, sfail>>
    /\ UNCHANGED <<dedupVars, concVars, consVars, safeVars>>

\* writeEvent(w, TextMessageEvent{...}); on error: log and break
WriteText ==
    /\ spc = "text"
    /\ IF werr
       THEN /\ spc' = "end"
            /\ sfail' = "write"
            /\ UNCHANGED written
       ELSE /\ spc' = "flush_text"
            /\ written' = Append(written, WordEvent(swords, sidx))
            /\ UNCHANGED sfail
    /\ UNCHANGED <<stext, swords, sidx, werr>>
    /\ UNCHANGED <<dedupVars, concVars, consVars, safeVars>>

\* a word loop that stops before the last word
LoopContinues_short(i, n) == i < n - 1

\* for i, word := range words: the loop goes on while i < len(words)
LoopContinues(i, n) == i < n

\* w.Flush() after a word, the delay, and the next iteration
FlushText ==
    /\ spc = "flush_text"
    /\ \E ok \in BOOLEAN : werr' = (werr \/ ~ok)
    /\ sidx' = sidx + 1
    /\ spc' = IF LoopContinues(sidx + 1, Len(swords)) THEN "text" ELSE "end"
    /\ UNCHANGED <<stext, swords, written, sfail>>
    /\ UNCHANGED <<dedupVars, concVars, consVars, safeVars>>

\* writeEvent(w, StreamingEndEvent{...}); on error: log only
WriteEnd ==
    /\ spc = "end"
    /\ IF werr
       THEN /\ sfail' = "write"
            /\ UNCHANGED written
       ELSE /\ written' = Append(written, StreamingEndEvent)
            /\ UNCHANGED sfail
    /\ spc' = "flush_end"
    /\ UNCHANGED <<stext, swords, sidx, werr>>
    /\ UNCHANGED <<dedupVars, concVars, consVars, safeVars>>

\* the last w.Flush(), the closing delay, and the return
FlushEnd ==
    /\ spc = "flush_end"
    /\ \E ok \in BOOLEAN : werr' = (werr \/ ~ok)
    /\ spc' = AfterFlushEnd
    /\ UNCHANGED <<stext, swords, sidx, written, sfail>>
    /\ UNCHANGED <<dedupVars, concVars, consVars, safeVars>>

\* a runtime panic raised by a statement of the writer
Panic ==
    /\ spc \in {"start", "flush_start", "generate", "text", "flush_text",
                "end", "flush_end"}
    /\ spc' = "deferred"
    /\ sfail' = "panic"
    /\ UNCHANGED <<stext, swords, sidx, written, werr>>
    /\ UNCHANGED <<dedupVars, concVars, consVars, safeVars>>

\* the deferred function: recover() and the log lines; the writer has returned
Deferred ==
    /\ spc = "deferred"
    /\ spc' = "done"
    /\ UNCHANGED <<stext, swords, sidx, written, werr, sfail>>
    /\ UNCHANGED <<dedupVars, concVars, consVars, safeVars>>

WriterStep ==
    \/ WriteStart
    \/ FlushStart
    \/ Generate
    \/ WriteText
    \/ FlushText
    \/ WriteEnd
    \/ FlushEnd
    \/ Deferred

\* the writer when no statement panics
NextWriter ==
    \/ \E text \in WriterTexts : StartWriter(text)
    \/ WriteStart
    \/ FlushStart
    \/ Generate
    \/ WriteText
    \/ FlushText
    \/ WriteEnd
    \/ FlushEnd
    \/ Deferred

SpecWriter == InitProducer /\ [][NextWriter]_vars

NextProducer ==
    \/ NextWriter
    \/ Panic

SpecProducer == InitProducer /\ [][NextProducer]_vars

\* the goroutine of the writer keeps being scheduled, and every write and
\* flush it calls returns
SpecProducerFair == SpecProducer /\ WF_vars(WriterStep)

EventTypes(evs) == [i \in 1..Len(evs) |-> evs[i].type]
Count(evs, T) == Cardinality({i \in 1..Len(evs) : evs[i].type \in T})
Terminal == {"STREAMING_END", "ERROR"}

\* ------------------------------------------------------------------------
\* C3: the events written for an accepted request are exactly one
\* STREAMING_START, first, then TEXT_MESSAGE_CONTENT events, then exactly
\* one terminal event (STREAMING_END or ERROR), last; on every path.
\* ------------------------------------------------------------------------
C3_StreamShape ==
    spc = "done" =>
        /\ Len(written) >= 2
        /\ written[1].type = "STREAMING_START"
        /\ Count(written, {"STREAMING_START"}) = 1
        /\ Count(written, Terminal) = 1
        /\ written[Len(written)].type \in Terminal
        /\ \A i \in 2..(Len(written) - 1) : written[i].type = "TEXT_MESSAGE_CONTENT"

\* ------------------------------------------------------------------------
\* C4: after a failed event write or a panic in the writer, the last event
\* written is an ERROR event; such a stream never ends with STREAMING_END
\* or without a terminal event.
\* ------------------------------------------------------------------------
C4_ErrorEventOnFailure ==
    (spc = "done" /\ sfail # "none") =>
        /\ Len(written) >= 1
        /\ written[Len(written)].type = "ERROR"

\* ------------------------------------------------------------------------
\* C5: the body stream writer of every accepted request returns: whether
\* the writes succeed, a write fails or a panic occurs, it reaches its end
\* after finitely many steps.
\* ------------------------------------------------------------------------
C5_WriterTerminates == (spc # "none") ~> (spc = "done")

\* a writer that returned after a failed write in the word loop
C5_Witness ==
    /\ spc = "done"
    /\ sfail = "write"
    /\ Len(written) >= 2

\* ------------------------------------------------------------------------
\* SpecPanic: the request workers of SpecConc and, for each accepted
\* request, its body stream writer, followed event by event; a writer can
\* panic at any statement after its deferred function is registered.
\* ------------------------------------------------------------------------
\* the events the writer of worker w writes when nothing fails: the start
\* event, one event per word and the end event
EventsToWrite(w) == Len(Fields(generateResponse(decodedMessage(wmsg[w])))) + 2

\* a deferred function that does not call recover()
StillPanicking_unrecovered(panicking) == panicking

\* the deferred function: recover() stops the panic
StillPanicking(panicking) == FALSE

\* SetBodyStreamWriter: the writer of an accepted request starts
WStart(w) ==
    /\ pc[w] = "streaming"
    /\ wspc[w] = "none"
    /\ wspc' = [wspc EXCEPT ![w] = "run"]
    /\ UNCHANGED <<wsent, wpanic, delivered, serverUp>>
    /\ UNCHANGED <<pc, wmsg, wdup, wat, readers, writer>>
    /\ UNCHANGED <<dedupVars, prodVars, safeVars, consVars>>

\* writeEvent and w.Flush() for the next event
WWrite(w) ==
    /\ wspc[w] = "run"
    /\ wsent[w] < EventsToWrite(w)
    /\ wsent' = [wsent EXCEPT ![w] = wsent[w] + 1]
    /\ UNCHANGED <<wspc, wpanic, delivered, serverUp>>
    /\ UNCHANGED <<pc, wmsg, wdup, wat, readers, writer>>
    /\ UNCHANGED <<dedupVars, prodVars, safeVars, consVars>>

\* the writer returns after the end event
WReturn(w) ==
    /\ wspc[w] = "run"
    /\ wsent[w] = EventsToWrite(w)
    /\ wspc' = [wspc EXCEPT ![w] = "deferred"]
    /\ UNCHANGED <<wsent, wpanic, delivered, serverUp>>
    /\ UNCHANGED <<pc, wmsg, wdup, wat, readers, writer>>
    /\ UNCHANGED <<dedupVars, prodVars, safeVars, consVars>>

\* a runtime panic raised by a statement of the writer of worker w
WPanic(w) ==
    /\ wspc[w] = "run"
    /\ wspc' = [wspc EXCEPT ![w] = "deferred"]
    /\ wpanic' = [wpanic EXCEPT ![w] = TRUE]
    /\ UNCHANGED <<wsent, delivered, serverUp>>
    /\ UNCHANGED <<pc, wmsg, wdup, wat, readers, writer>>
    /\ UNCHANGED <<dedupVars, prodVars, safeVars, consVars>>

\* the deferred function of the writer runs; a panic that is still
\* propagating when the goroutine ends terminates the process
WDeferred(w) ==
    /\ wspc[w] = "deferred"
    /\ wspc' = [wspc EXCEPT ![w] = "done"]
    /\ serverUp' = (serverUp /\ ~StillPanicking(wpanic[w]))
    /\ UNCHANGED <<wsent, wpanic, delivered>>
    /\ UNCHANGED <<pc, wmsg, wdup, wat, readers, writer>>
    /\ UNCHANGED <<dedupVars, prodVars, safeVars, consVars>>

\* the steps the goroutine of a writer takes when it is scheduled
WStep(w) == WStart(w) \/ WWrite(w) \/ WReturn(w) \/ WDeferred(w)

InitPanic ==
    /\ InitHandler
    /\ InitWorkers
    /\ InitWriter
    /\ InitHook
    /\ InitSafe
    /\ endpoint = ValidEndpoint

NextPanic ==
    /\ serverUp
    /\ \/ SweepLock
       \/ SweepUnlock
       \/ \E w \in Workers : \E message \in RawMessages : Begin(w, message)
       \/ \E w \in Workers : RLock(w)
       \/ \E w \in Workers : Lookup(w)
       \/ \E w \in Workers : RUnlock(w)
       \/ \E w \in Workers : Lock(w)
       \/ \E w \in Workers : Store(w)
       \/ \E w \in Workers : Unlock(w)
       \/ \E w \in Workers : WStart(w)
       \/ \E w \in Workers : WWrite(w)
       \/ \E w \in Workers : WReturn(w)
       \/ \E w \in Workers : WPanic(w)
       \/ \E w \in Workers : WDeferred(w)

SpecPanic == InitPanic /\ [][NextPanic]_vars

\* the goroutine of every writer keeps being scheduled
SpecPanicFair == SpecPanic /\ \A w \in Workers : WF_vars(WStep(w))

\* ------------------------------------------------------------------------
\* C18: a panic in the writer of one stream is recovered inside that
\* writer: the process keeps running, the writer that panicked returns, it
\* holds no lock, the panic changes neither the dedup map nor the lock nor
\* the other worker, and the writer of the other stream still runs to its
\* end.
\* ------------------------------------------------------------------------
C18_Contained ==
    /\ serverUp
    /\ \A w \in Workers : wspc[w] # "none" => w \notin readers \cup writer

C18_PanicFrame ==
    \A w \in Workers :
        WPanic(w) =>
            /\ recentMessages' = recentMessages
            /\ readers' = readers
            /\ writer' = writer
            /\ \A v \in Workers \ {w} :
                  /\ pc'[v] = pc[v]
                  /\ wspc'[v] = wspc[v]
                  /\ wsent'[v] = wsent[v]

UserTexts == {"hiking"}

\* contents of TEXT_MESSAGE_CONTENT events
Chunks == {<<"a">>, <<"b">>, <<"a", "b">>}

\* messages of ERROR events
ErrorMessages == {"Stream failed"}

\* the activities of ACTIVITIES_FOUND events and the images of IMAGES_LOADED
\* events
ActivityBatches == {<<"act1">>, <<"act2">>}
ImageBatches == {<<"img1">>, <<"img2">>}

\* the elements of an array
Range(seq) == {seq[i] : i \in 1..Len(seq)}

\* the events a frame can carry; a STREAMING_START comes with a messageId
\* or without one
Events ==
    {[type |-> "STREAMING_START", hasId |-> b] : b \in BOOLEAN}
    \cup {[type |-> "TEXT_MESSAGE_CONTENT", content |-> c, isComplete |-> b] :
            c \in Chunks, b \in BOOLEAN}
    \cup {[type |-> "STREAMING_END"]}
    \cup {[type |-> "ERROR", message |-> m] : m \in ErrorMessages}
    \cup {[type |-> "STATE_UPDATE"]}

\* the events that carry activities, images and tool executions
DataEvents ==
    {[type |-> "ACTIVITIES_FOUND", activities |-> a,
      totalCount |-> Len(a), searchQuery |-> "hiking"] : a \in ActivityBatches}
    \cup {[type |-> "IMAGES_LOADED", images |-> g, activityId |-> "act1"] :
            g \in ImageBatches}
    \cup {[type |-> t, toolName |-> "search"] :
            t \in {"TOOL_EXECUTION_START", "TOOL_EXECUTION_END"}}

\* the data of an SSE frame: one JSON object, a JSON array, or no JSON
Frames ==
    {[data |-> "object", events |-> <<e>>] : e \in Events}
    \cup {[data |-> "array", events |-> <<>>],
          [data |-> "array", events |-> <<[type |-> "STREAMING_END"],
                                          [type |-> "ERROR", message |-> "Stream failed"]>>]}
    \cup {[data |-> "garbage", events |-> <<>>]}

\* the frames of a stream that carries activities and images with its text
DataFrames ==
    {[data |-> "object", events |-> <<e>>] : e \in DataEvents}
    \cup {[data |-> "object", events |-> <<e>>] :
            e \in {[type |-> "STREAMING_START", hasId |-> TRUE],
                   [type |-> "TEXT_MESSAGE_CONTENT", content |-> <<"a">>,
                    isComplete |-> FALSE],
                   [type |-> "STREAMING_END"],
                   [type |-> "ERROR", message |-> "Stream failed"]}}

\* parseAGUIEvent: <<>> for null or undefined, else the event in a
\* one-element sequence; of an array only the first event is returned
parseAGUIEvent(frame) ==
    IF frame.data = "garbage" THEN <<>>
    ELSE IF frame.events = <<>> THEN <<>>
    ELSE <<frame.events[1]>>

\* endpoint.startsWith('http://') || endpoint.startsWith('https://')
EndpointHasProtocol(e) == e = ValidEndpoint

\* a store that puts the new message first
addMessage_prepend(msgs, message) == <<message>> \o msgs

\* useChatStore.addMessage
addMessage(msgs, message) == Append(msgs, message)

\* { ...msg, ...updates }
Merge(msg, updates) ==
    [k \in (DOMAIN msg) \cup (DOMAIN updates) |->
        IF k \in DOMAIN updates THEN updates[k] ELSE msg[k]]

\* useChatStore.updateMessage
updateMessage(msgs, id, updates) ==
    [i \in 1..Len(msgs) |-> IF msgs[i].id = id THEN Merge(msgs[i], updates)
                                               ELSE msgs[i]]

\* streamEvent.messageId || `msg-${Date.now()}`: ids of successive streams differ
MessageIdOf(ev, n) == IF ev.hasId THEN <<"msg-ns", n>> ELSE <<"msg-now", n>>

\* currentMessageRef.current overwritten by the chunk
appendContent_overwrite(current, content) == content

\* currentMessageRef.current += textEvent.content
appendContent(current, content) == current \o content

\* a handle dropped without close()
closeSource_leak(es, ref) == es

\* eventSourceRef.current.close(), when a handle is held
closeSource(es, ref) == IF ref # 0 THEN [es EXCEPT ![ref] = "CLOSED"] ELSE es

\* the terminal events leaving isConnected as it is
connectedAfterClose_kept(ref, connected) == connected

\* setIsConnected(false) inside if (eventSourceRef.current)
connectedAfterClose(ref, connected) == IF ref # 0 THEN FALSE ELSE connected

\* a sendMessage that never takes the early return
sendMessageIgnored_never(streaming) == FALSE

\* the guard of sendMessage: if (isStreaming) return
sendMessageIgnored(streaming) == streaming

\* reconnect opening a connection again
reconnectSources_reopen(es, ref) == Append(closeSource(es, ref), "CONNECTING")

\* the EventSource objects after reconnect(): the held one is closed
reconnectSources(es, ref) == closeSource(es, ref)

\* reconnect() leaving isConnected as it is
reconnectConnected_kept(connected) == connected

\* setIsConnected(false) of reconnect()
reconnectConnected(connected) == FALSE

\* a skipped frame tearing the connection down
sourcesAfterSkip_close(es, ref) == closeSource(es, ref)

\* the EventSource objects after a frame was skipped: a log line only
sourcesAfterSkip(es, ref) == es

\* a chunk that leaves the message's flag set
messageStreaming_kept(complete) == TRUE

\* isStreaming: !textEvent.isComplete
messageStreaming(complete) == ~complete

\* the number of messages of a type in a log
CountType(msgs, type) == Cardinality({i \in 1..Len(msgs) : msgs[i].type = type})

Snapshot(op, payload) ==
    [op |-> op, len |-> Len(messages), errors |-> CountType(messages, "error"),
     opened |-> Len(esState), es |-> eventSourceRef, streaming |-> isStreaming,
     inStream |-> inStream, connected |-> isConnected,
     target |-> currentMessageIdRef, payload |-> payload,
     log |-> messages, states |-> esState, content |-> currentMessageRef,
     complete |-> FALSE,
     error |-> error, connectionError |-> connectionError]

InitConsumer ==
    /\ InitHandler
    /\ InitWorkers
    /\ InitWriter
    /\ InitHook
    /\ InitSafe
    /\ endpoint \in Endpoints

\* sendMessage(message), with setupEventSource(message)
sendMessage(message) ==
    /\ last' = Snapshot("sendMessage", <<message>>)
    /\ IF sendMessageIgnored(isStreaming)
       THEN /\ UNCHANGED <<storeVars, hookVars>>
            /\ UNCHANGED <<nSend, nStart, nText, inStream, expected>>
       ELSE /\ Len(messages) < MaxLog
            /\ nSend < MaxSends
            /\ nSend' = nSend + 1
            /\ isManuallyDisconnected' =
                  (IF eventSourceRef # 0 THEN TRUE ELSE isManuallyDisconnected)
            /\ reconnectTimeoutRef' = FALSE
            /\ messages' = addMessage(messages,
                  [id |-> <<"user-now", nSend>>, type |-> "user",
                   content |-> <<message>>])
            /\ error' = undefined
            /\ isConnected' = connectedAfterClose(eventSourceRef, isConnected)
            /\ IF EndpointHasProtocol(endpoint)
               THEN /\ esState' = Append(closeSource(esState, eventSourceRef),
                                         "CONNECTING")
                    /\ eventSourceRef' = Len(esState) + 1
                    /\ connectionError' = undefined
               ELSE /\ esState' = closeSource(esState, eventSourceRef)
                    /\ eventSourceRef' = 0
                    /\ connectionError' = "Invalid endpoint URL format"
            /\ UNCHANGED <<isStreaming, activities, currentMessageRef,
                           currentMessageIdRef, endpoint>>
            /\ UNCHANGED <<nStart, nText, inStream, expected>>
    /\ UNCHANGED <<dataVars, toolVars>>
    /\ UNCHANGED <<dedupVars, concVars, prodVars, safeVars>>

\* eventSource.onopen of the EventSource c
onopen(c) ==
    /\ esState[c] = "CONNECTING"
    /\ last' = Snapshot("onopen", <<>>)
    /\ esState' = [esState EXCEPT ![c] = "OPEN"]
    /\ isConnected' = TRUE
    /\ connectionError' = undefined
    /\ error' = undefined
    /\ UNCHANGED <<messages, isStreaming, activities>>
    /\ UNCHANGED <<eventSourceRef, currentMessageRef, currentMessageIdRef,
                   isManuallyDisconnected, reconnectTimeoutRef, endpoint>>
    /\ UNCHANGED <<nSend, nStart, nText, inStream, expected>>
    /\ UNCHANGED <<dataVars, toolVars>>
    /\ UNCHANGED <<dedupVars, concVars, prodVars, safeVars>>

\* handleAGUIEvent, case 'STREAMING_START'
HandleStreamingStart(ev) ==
    /\ ev.type = "STREAMING_START"
    /\ Len(messages) < MaxLog
    /\ isStreaming' = TRUE
    /\ currentMessageIdRef' = MessageIdOf(ev, nStart)
    /\ currentMessageRef' = <<>>
    /\ messages' = addMessage(messages,
          [id |-> MessageIdOf(ev, nStart), type |-> "assistant",
           content |-> <<>>, isStreaming |-> TRUE])
    /\ nStart' = nStart + 1
    /\ inStream' = TRUE
    /\ expected' = <<>>
    /\ gotActivities' = {}
    /\ gotImages' = {}
    /\ skipped' = FALSE
    /\ UNCHANGED <<error, activities, isConnected, connectionError,
                   eventSourceRef, isManuallyDisconnected, reconnectTimeoutRef,
                   endpoint, esState, nSend, nText, nData>>
    /\ UNCHANGED toolVars

\* handleAGUIEvent, case 'TEXT_MESSAGE_CONTENT'
HandleTextMessageContent(ev) ==
    /\ ev.type = "TEXT_MESSAGE_CONTENT"
    /\ nText < MaxChunks
    /\ nText' = nText + 1
    /\ currentMessageRef' = appendContent(currentMessageRef, ev.content)
    /\ messages' = updateMessage(messages, currentMessageIdRef,
          [content |-> currentMessageRef',
           isStreaming |-> messageStreaming(ev.isComplete)])
    /\ expected' = IF inStream THEN expected \o ev.content ELSE expected
    /\ UNCHANGED <<isStreaming, error, activities, isConnected, connectionError,
                   eventSourceRef, currentMessageIdRef, isManuallyDisconnected,
                   reconnectTimeoutRef, endpoint, esState, nSend, nStart,
                   inStream>>
    /\ UNCHANGED <<dataVars, toolVars>>

\* handleAGUIEvent, case 'STREAMING_END'
HandleStreamingEnd(ev) ==
    /\ ev.type = "STREAMING_END"
    /\ isStreaming' = FALSE
    /\ messages' = updateMessage(messages, currentMessageIdRef,
                                 [isStreaming |-> FALSE])
    /\ currentMessageRef' = <<>>
    /\ currentMessageIdRef' = <<>>
    /\ isManuallyDisconnected' = TRUE
    /\ esState' = closeSource(esState, eventSourceRef)
    /\ eventSourceRef' = 0
    /\ isConnected' = connectedAfterClose(eventSourceRef, isConnected)
    /\ inStream' = FALSE
    /\ UNCHANGED <<error, activities, connectionError, reconnectTimeoutRef,
                   endpoint, nSend, nStart, nText, expected>>
    /\ UNCHANGED <<dataVars, toolVars>>

\* handleAGUIEvent, case 'ERROR'
HandleError(ev) ==
    /\ ev.type = "ERROR"
    /\ Len(messages) < MaxLog
    /\ error' = ev.message
    /\ isStreaming' = FALSE
    /\ messages' = addMessage(messages,
          [id |-> <<"error-now", Len(messages)>>, type |-> "error",
           content |-> <<ev.message>>])
    /\ isManuallyDisconnected' = TRUE
    /\ esState' = closeSource(esState, eventSourceRef)
    /\ eventSourceRef' = 0
    /\ isConnected' = connectedAfterClose(eventSourceRef, isConnected)
    /\ inStream' = FALSE
    /\ UNCHANGED <<activities, connectionError, currentMessageRef,
                   currentMessageIdRef, reconnectTimeoutRef, endpoint, nSend,
                   nStart, nText, expected>>
    /\ UNCHANGED <<dataVars, toolVars>>

\* handleAGUIEvent, case 'ACTIVITIES_FOUND'
HandleActivitiesFound(ev) ==
    /\ ev.type = "ACTIVITIES_FOUND"
    /\ nData < MaxBatches
    /\ nData' = nData + 1
    /\ activities' = ev.activities
    /\ messages' = updateMessage(messages, currentMessageIdRef,
          [activities |-> ev.activities,
           metadata |-> [totalCount |-> ev.totalCount,
                         searchQuery |-> ev.searchQuery]])
    /\ gotActivities' = IF inStream THEN gotActivities \cup Range(ev.activities)
                                    ELSE gotActivities
    /\ UNCHANGED <<isStreaming, error>>
    /\ UNCHANGED hookVars
    /\ UNCHANGED <<nSend, nStart, nText, inStream, expected, gotImages, skipped>>
    /\ UNCHANGED toolVars

\* handleAGUIEvent, case 'IMAGES_LOADED'
HandleImagesLoaded(ev) ==
    /\ ev.type = "IMAGES_LOADED"
    /\ nData < MaxBatches
    /\ nData' = nData + 1
    /\ messages' = updateMessage(messages, currentMessageIdRef,
          [images |-> ev.images, metadata |-> [activityId |-> ev.activityId]])
    /\ gotImages' = IF inStream THEN gotImages \cup Range(ev.images) ELSE gotImages
    /\ UNCHANGED <<isStreaming, error, activities>>
    /\ UNCHANGED hookVars
    /\ UNCHANGED <<nSend, nStart, nText, inStream, expected, gotActivities,
                   skipped>>
    /\ UNCHANGED toolVars

\* a callback that ignores its isStart argument
onToolExecution_add(prev, toolName, isStart) == prev \cup {toolName}

\* onToolExecution of ChatInterface: newSet.add or newSet.delete
onToolExecution(prev, toolName, isStart) ==
    IF isStart THEN prev \cup {toolName} ELSE prev \ {toolName}

\* handleAGUIEvent, cases 'TOOL_EXECUTION_START' and 'TOOL_EXECUTION_END':
\* the onToolExecution callback of the caller, no state of the hook
HandleToolExecution(ev) ==
    /\ ev.type \in {"TOOL_EXECUTION_START", "TOOL_EXECUTION_END"}
    /\ toolExecutions' = onToolExecution(toolExecutions, ev.toolName,
                                         ev.type = "TOOL_EXECUTION_START")
    /\ toolLast' = [toolLast EXCEPT ![ev.toolName] = ev.type]
    /\ UNCHANGED <<storeVars, hookVars>>
    /\ UNCHANGED <<nSend, nStart, nText, inStream, expected>>
    /\ UNCHANGED dataVars

KnownTypes == {"STREAMING_START", "TEXT_MESSAGE_CONTENT", "ACTIVITIES_FOUND",
               "IMAGES_LOADED", "TOOL_EXECUTION_START", "TOOL_EXECUTION_END",
               "STREAMING_END", "ERROR"}

\* handleAGUIEvent, default: a warning only
HandleDefault(ev) ==
    /\ ev.type \notin KnownTypes
    /\ esState' = sourcesAfterSkip(esState, eventSourceRef)
    /\ skipped' = (skipped \/ inStream)
    /\ UNCHANGED storeVars
    /\ UNCHANGED <<isConnected, connectionError, eventSourceRef,
                   currentMessageRef, currentMessageIdRef,
                   isManuallyDisconnected, reconnectTimeoutRef, endpoint>>
    /\ UNCHANGED <<nSend, nStart, nText, inStream, expected>>
    /\ UNCHANGED <<nData, gotActivities, gotImages>>
    /\ UNCHANGED toolVars

handleAGUIEvent(ev) ==
    \/ HandleStreamingStart(ev)
    \/ HandleTextMessageContent(ev)
    \/ HandleActivitiesFound(ev)
    \/ HandleImagesLoaded(ev)
    \/ HandleToolExecution(ev)
    \/ HandleStreamingEnd(ev)
    \/ HandleError(ev)
    \/ HandleDefault(ev)

\* eventSource.onmessage of the EventSource c: parse the frame and handle the
\* event; a frame that does not parse is skipped
onmessageHook(c, frame) ==
    /\ esState[c] = "OPEN"
    /\ LET parsed == parseAGUIEvent(frame)
       IN IF parsed = <<>>
          THEN /\ last' = Snapshot("skip", <<>>)
               /\ esState' = sourcesAfterSkip(esState, eventSourceRef)
               /\ skipped' = (skipped \/ inStream)
               /\ UNCHANGED storeVars
               /\ UNCHANGED <<isConnected, connectionError, eventSourceRef,
                              currentMessageRef, currentMessageIdRef,
                              isManuallyDisconnected, reconnectTimeoutRef,
                              endpoint>>
               /\ UNCHANGED <<nSend, nStart, nText, inStream, expected>>
               /\ UNCHANGED <<nData, gotActivities, gotImages>>
               /\ UNCHANGED toolVars
          ELSE /\ last' = IF parsed[1].type = "TEXT_MESSAGE_CONTENT"
                          THEN [Snapshot(parsed[1].type, parsed[1].content)
                                  EXCEPT !.complete = parsed[1].isComplete]
                          ELSE Snapshot(parsed[1].type,
                                        IF parsed[1].type = "ERROR"
                                        THEN <<parsed[1].message>> ELSE <<>>)
               /\ handleAGUIEvent(parsed[1])

onmessage(c, frame) ==
    /\ onmessageHook(c, frame)
    /\ UNCHANGED <<dedupVars, concVars, prodVars, safeVars>>

\* an error handler that leaves isConnected as it is
connectedAfterError_kept(connected) == connected

\* setIsConnected(false), the first statement of onerror
connectedAfterError(connected) == FALSE

\* eventSource.onerror of the EventSource c: the transport failed or the
\* response ended
onerror(c) ==
    /\ esState[c] \in {"CONNECTING", "OPEN"}
    /\ last' = Snapshot("onerror", <<>>)
    /\ isConnected' = connectedAfterError(isConnected)
    /\ esState' = [esState EXCEPT ![c] = "CLOSED"]
    /\ eventSourceRef' = 0
    /\ connectionError' = "Connection closed unexpectedly"
    /\ inStream' = FALSE
    /\ UNCHANGED <<messages, isStreaming, error, activities>>
    /\ UNCHANGED <<currentMessageRef, currentMessageIdRef,
                   isManuallyDisconnected, reconnectTimeoutRef, endpoint>>
    /\ UNCHANGED <<nSend, nStart, nText, expected>>
    /\ UNCHANGED <<dataVars, toolVars>>
    /\ UNCHANGED <<dedupVars, concVars, prodVars, safeVars>>

\* reconnect()
reconnect ==
    /\ last' = Snapshot("reconnect", <<>>)
    /\ isManuallyDisconnected' =
          (IF eventSourceRef # 0 THEN TRUE ELSE isManuallyDisconnected)
    /\ esState' = reconnectSources(esState, eventSourceRef)
    /\ eventSourceRef' = 0
    /\ reconnectTimeoutRef' = FALSE
    /\ isConnected' = reconnectConnected(isConnected)
    /\ connectionError' = undefined
    /\ error' = undefined
    /\ inStream' = FALSE
    /\ UNCHANGED <<messages, isStreaming, activities>>
    /\ UNCHANGED <<currentMessageRef, currentMessageIdRef, endpoint>>
    /\ UNCHANGED <<nSend, nStart, nText, expected>>
    /\ UNCHANGED <<dataVars, toolVars>>
    /\ UNCHANGED <<dedupVars, concVars, prodVars, safeVars>>

\* the cleanup function of the hook's effect, run when the component
\* unmounts
unmount ==
    /\ last' = Snapshot("unmount", <<>>)
    /\ reconnectTimeoutRef' = FALSE
    /\ isManuallyDisconnected' =
          (IF eventSourceRef # 0 THEN TRUE ELSE isManuallyDisconnected)
    /\ esState' = closeSource(esState, eventSourceRef)
    /\ eventSourceRef' = 0
    /\ inStream' = FALSE
    /\ UNCHANGED <<messages, isStreaming, error, activities>>
    /\ UNCHANGED <<isConnected, connectionError, currentMessageRef,
                   currentMessageIdRef, endpoint>>
    /\ UNCHANGED <<nSend, nStart, nText, expected>>
    /\ UNCHANGED <<dataVars, toolVars>>
    /\ UNCHANGED <<dedupVars, concVars, prodVars, safeVars>>

NextConsumer ==
    \/ \E message \in UserTexts : sendMessage(message)
    \/ \E c \in 1..Len(esState) : onopen(c)
    \/ \E c \in 1..Len(esState) : \E frame \in Frames : onmessage(c, frame)
    \/ \E c \in 1..Len(esState) : onerror(c)
    \/ reconnect

SpecConsumer == InitConsumer /\ [][NextConsumer]_vars

\* ------------------------------------------------------------------------
\* SpecFold: the same hook on streams that carry activities and images
\* ------------------------------------------------------------------------
InitFold ==
    /\ InitHandler
    /\ InitWorkers
    /\ InitWriter
    /\ InitHook
    /\ InitSafe
    /\ endpoint = ValidEndpoint

NextFold ==
    \/ \E message \in UserTexts : sendMessage(message)
    \/ \E c \in 1..Len(esState) : onopen(c)
    \/ \E c \in 1..Len(esState) : \E frame \in DataFrames : onmessage(c, frame)
    \/ \E c \in 1..Len(esState) : onerror(c)
    \/ reconnect

SpecFold == InitFold /\ [][NextFold]_vars

\* ------------------------------------------------------------------------
\* SpecTools: the same hook on streams that carry tool executions
\* ------------------------------------------------------------------------
\* the frames of a stream that reports the tools it runs
ToolFrames ==
    {[data |-> "object", events |-> <<[type |-> t, toolName |-> n]>>] :
        t \in {"TOOL_EXECUTION_START", "TOOL_EXECUTION_END"}, n \in ToolNames}
    \cup {[data |-> "object", events |-> <<e>>] :
            e \in {[type |-> "STREAMING_START", hasId |-> TRUE],
                   [type |-> "STREAMING_END"]}}

InitTools ==
    /\ InitHandler
    /\ InitWorkers
    /\ InitWriter
    /\ InitHook
    /\ InitSafe
    /\ endpoint = ValidEndpoint

NextTools ==
    \/ \E message \in UserTexts : sendMessage(message)
    \/ \E c \in 1..Len(esState) : onopen(c)
    \/ \E c \in 1..Len(esState) : \E frame \in ToolFrames : onmessage(c, frame)
    \/ \E c \in 1..Len(esState) : onerror(c)
    \/ reconnect

SpecTools == InitTools /\ [][NextTools]_vars

\* ------------------------------------------------------------------------
\* SpecSafe: one SafeEventSource instance, its EventSource objects and its
\* timers
\* ------------------------------------------------------------------------
SafeSnapshot(op) ==
    [op |-> op, opened |-> Len(sesStates), scheduled |-> sesScheduled,
     attempts |-> sesAttempts, source |-> sesSource, timers |-> sesTimers]

\* a clearReconnectTimeout that forgets the timer without cancelling it
clearReconnectTimeout_forget(timers, timeout) == timers

\* clearReconnectTimeout: the timers pending after clearTimeout(timeout)
clearReconnectTimeout(timers, timeout) == timers \ {timeout}

\* this.config.maxReconnectAttempts || 3
ReconnectLimit(max) == IF max = 0 THEN 3 ELSE max

\* connect(), called by the owner or by the timer, with the timers that are
\* pending when it starts
connectFrom(timers, by) ==
    /\ Len(sesStates) < MaxSources
    /\ sesStates' = Append(closeSource(sesStates, sesSource), "CONNECTING")
    /\ sesSource' = Len(sesStates) + 1
    /\ sesManual' = FALSE
    /\ sesTimers' = IF sesSource # 0
                    THEN clearReconnectTimeout(timers, sesTimeout) ELSE timers
    /\ sesTimeout' = IF sesSource # 0 THEN 0 ELSE sesTimeout
    /\ sesOpenedBy' = Append(sesOpenedBy, by)
    /\ UNCHANGED <<sesAttempts, sesMax, sesScheduled>>

\* connect() called by the owner of the instance
SafeConnect ==
    /\ sesLast' = SafeSnapshot("connect")
    /\ connectFrom(sesTimers, "connect")
    /\ UNCHANGED loopVars
    /\ UNCHANGED <<dedupVars, concVars, prodVars, consVars>>

\* close(); destroy() is close() followed by clearReconnectTimeout()
SafeClose(op) ==
    /\ sesLast' = SafeSnapshot(op)
    /\ sesManual' = TRUE
    /\ sesTimers' = clearReconnectTimeout(sesTimers, sesTimeout)
    /\ sesTimeout' = 0
    /\ sesStates' = closeSource(sesStates, sesSource)
    /\ sesSource' = 0
    /\ UNCHANGED <<sesAttempts, sesMax, sesOpenedBy, sesScheduled>>
    /\ UNCHANGED loopVars
    /\ UNCHANGED <<dedupVars, concVars, prodVars, consVars>>

\* the EventSource c opens
SafeOpen(c) ==
    /\ sesStates[c] = "CONNECTING"
    /\ sesLast' = SafeSnapshot("open")
    /\ sesStates' = [sesStates EXCEPT ![c] = "OPEN"]
    /\ UNCHANGED <<sesSource, sesManual, sesAttempts, sesTimeout, sesTimers,
                   sesMax, sesOpenedBy, sesScheduled>>
    /\ UNCHANGED loopVars
    /\ UNCHANGED <<dedupVars, concVars, prodVars, consVars>>

\* the error handler installed by setupEventHandlers, run for an error of
\* the EventSource c, which the browser has closed or is reconnecting
SafeOnError(c) ==
    /\ sesStates[c] \in {"CONNECTING", "OPEN"}
    /\ sesLast' = SafeSnapshot("error")
    /\ \E st \in {"CONNECTING", "CLOSED"} :
          sesStates' = closeSource([sesStates EXCEPT ![c] = st], sesSource)
    /\ sesSource' = 0
    /\ IF ~sesManual
       THEN /\ sesAttempts' = sesAttempts + 1
            /\ IF sesAttempts + 1 <= ReconnectLimit(sesMax)
               THEN /\ sesTimers' = clearReconnectTimeout(sesTimers, sesTimeout)
                                       \cup {sesScheduled + 1}
                    /\ sesTimeout' = sesScheduled + 1
                    /\ sesScheduled' = sesScheduled + 1
               ELSE UNCHANGED <<sesTimers, sesTimeout, sesScheduled>>
       ELSE UNCHANGED <<sesAttempts, sesTimers, sesTimeout, sesScheduled>>
    /\ UNCHANGED <<sesManual, sesMax, sesOpenedBy>>
    /\ UNCHANGED loopVars
    /\ UNCHANGED <<dedupVars, concVars, prodVars, consVars>>

\* the timer t set by scheduleReconnect fires
SafeTimer(t) ==
    /\ t \in sesTimers
    /\ sesLast' = SafeSnapshot("timer")
    /\ IF ~sesManual
       THEN connectFrom(sesTimers \ {t}, "timer")
       ELSE /\ sesTimers' = sesTimers \ {t}
            /\ UNCHANGED <<sesSource, sesStates, sesManual, sesTimeout,
                           sesAttempts, sesMax, sesOpenedBy, sesScheduled>>
    /\ UNCHANGED loopVars
    /\ UNCHANGED <<dedupVars, concVars, prodVars, consVars>>

InitSafeSource ==
    /\ InitHandler
    /\ InitWorkers
    /\ InitWriter
    /\ InitHook
    /\ endpoint = ValidEndpoint
    /\ \E config \in Configs : InitSource(config)
    /\ InitLoop

NextSafe ==
    \/ SafeConnect
    \/ SafeClose("close")
    \/ SafeClose("destroy")
    \/ \E c \in 1..Len(sesStates) : SafeOpen(c)
    \/ \E c \in 1..Len(sesStates) : SafeOnError(c)
    \/ \E t \in sesTimers : SafeTimer(t)

SpecSafe == InitSafeSource /\ [][NextSafe]_vars

\* ------------------------------------------------------------------------
\* SpecLoop: a caller of detectEventSourceLoop with one Map and one
\* timeWindow.  A key `${url}_${window}` is the pair <<url, window>>; the
\* window number holds no '_', so a key ends with `_${window}` exactly
\* when its second part is that window.
\* ------------------------------------------------------------------------
\* the urls connections are registered for
Urls == {"http://a/stream", "http://b/stream"}

\* timeWindow, in time units
TimeWindow == 2

\* Math.floor(now / timeWindow)
WindowOf(t) == t \div TimeWindow

\* eventCounts.get(key) || 0
GetCount(map, key) == IF key \in DOMAIN map THEN map[key] ELSE 0

\* eventCounts.set(key, count + 1) and the loop that deletes the keys that
\* do not end with the current window
CountsAfter(map, key, window) ==
    LET set == [k \in (DOMAIN map) \cup {key} |->
                   IF k = key THEN GetCount(map, key) + 1 ELSE map[k]]
    IN [k \in {k \in DOMAIN set : k[2] = window} |-> set[k]]

\* return count > 5
LoopFlag(count) == count > 5

\* detectEventSourceLoop(eventCounts, url, timeWindow)
detectEventSourceLoop(url) ==
    LET window == WindowOf(loopNow)
        key == <<url, window>>
        count == GetCount(eventCounts, key)
    IN /\ GetCount(loopCalls, key) < MaxCalls
       /\ eventCounts' = CountsAfter(eventCounts, key, window)
       /\ loopCalls' = [k \in (DOMAIN loopCalls) \cup {key} |->
                           IF k = key THEN GetCount(loopCalls, key) + 1
                           ELSE loopCalls[k]]
       /\ loopResult' = [url |-> url, window |-> window,
                         flagged |-> LoopFlag(count)]
       /\ UNCHANGED loopNow
       /\ UNCHANGED sesVars
       /\ UNCHANGED <<dedupVars, concVars, prodVars, consVars>>

\* time passes between two calls
LoopTick ==
    /\ loopNow < MaxLoopTime
    /\ loopNow' = loopNow + 1
    /\ UNCHANGED <<eventCounts, loopCalls, loopResult>>
    /\ UNCHANGED sesVars
    /\ UNCHANGED <<dedupVars, concVars, prodVars, consVars>>

InitLoopCaller ==
    /\ InitHandler
    /\ InitWorkers
    /\ InitWriter
    /\ InitHook
    /\ InitSafe
    /\ endpoint = ValidEndpoint

NextLoop ==
    \/ LoopTick
    \/ \E url \in Urls : detectEventSourceLoop(url)

SpecLoop == InitLoopCaller /\ [][NextLoop]_vars

\* ------------------------------------------------------------------------
\* SpecTeardown: a page with the hook, from mount to unmount, and with a
\* SafeEventSource of the default configuration
\* ------------------------------------------------------------------------
\* the frames of a stream without text
TeardownFrames ==
    {[data |-> "object", events |-> <<e>>] :
        e \in {[type |-> "STREAMING_START", hasId |-> TRUE],
               [type |-> "STREAMING_END"]}}

InitTeardown ==
    /\ InitHandler
    /\ InitWorkers
    /\ InitWriter
    /\ InitHook
    /\ InitSafe
    /\ endpoint = ValidEndpoint

\* the steps of the hook while its component is mounted
NextMounted ==
    /\ last.op # "unmount"
    /\ \/ \E message \in UserTexts : sendMessage(message)
       \/ \E c \in 1..Len(esState) : onopen(c)
       \/ \E c \in 1..Len(esState) :
             \E frame \in TeardownFrames : onmessage(c, frame)
       \/ \E c \in 1..Len(esState) : onerror(c)
       \/ reconnect
       \/ unmount

NextTeardown ==
    \/ NextMounted
    \/ NextSafe

SpecTeardown == InitTeardown /\ [][NextTeardown]_vars

\* ------------------------------------------------------------------------
\* SpecSession: the handler, its writers and the hook composed.  The k-th
\* EventSource the hook creates is served by the worker WorkerSeq[k]; the
\* transport hands every flushed event to the hook in order.  The user
\* sends the next message once the previous exchange has ended.
\* ------------------------------------------------------------------------
WorkerSeq == <<"w1", "w2">>

\* url.searchParams.set('message', messageContent), read back by
\* c.Query("message"): the text is percent-encoded in the URL and decoded by
\* the server, a space travels as '+'
QueryParam(messageContent) ==
    CASE messageContent = "trail food" -> "trail food"
      [] OTHER                         -> messageContent

\* the text of the user message the c-th EventSource was created for
UserTextOf(c) ==
    LET i == CHOOSE i \in 1..Len(messages) : messages[i].id = <<"user-now", c - 1>>
    IN messages[i].content[1]

\* the k-th event the body stream writer of worker w writes: the start
\* event, one event per word, the end event
EventAt(w, k) ==
    LET words == Fields(generateResponse(decodedMessage(wmsg[w])))
    IN IF k = 1 THEN StreamingStartEvent("msg-ns")
       ELSE IF k <= Len(words) + 1 THEN WordEvent(words, k - 2)
       ELSE StreamingEndEvent

\* writeEvent followed by JSON.parse of event.data: the frame carries one
\* JSON object with the fields of the event struct
FrameOf(ev) ==
    [data |-> "object",
     events |-> <<IF ev.type = "STREAMING_START"
                  THEN [type |-> ev.type, hasId |-> ev.messageId # ""]
                  ELSE ev>>]

\* a new message typed when no exchange is under way
SessionSend(message) ==
    /\ eventSourceRef = 0
    /\ ~isStreaming
    /\ nSend < Len(WorkerSeq)
    /\ sendMessage(message)

\* the GET request of the EventSource c reaches StreamChat
SessionRequest(c) ==
    /\ c <= Len(WorkerSeq)
    /\ Begin(WorkerSeq[c], QueryParam(UserTextOf(c)))

\* the response headers of an accepted request reach the EventSource c
SessionOpen(c) ==
    /\ c <= Len(WorkerSeq)
    /\ pc[WorkerSeq[c]] = "streaming"
    /\ onopen(c)

\* the next flushed event reaches the EventSource c
Deliver(c) ==
    /\ c <= Len(WorkerSeq)
    /\ delivered[WorkerSeq[c]] < wsent[WorkerSeq[c]]
    /\ onmessageHook(c, FrameOf(EventAt(WorkerSeq[c],
                                        delivered[WorkerSeq[c]] + 1)))
    /\ delivered' = [delivered EXCEPT ![WorkerSeq[c]] = @ + 1]
    /\ UNCHANGED <<wspc, wsent, wpanic, serverUp>>
    /\ UNCHANGED <<pc, wmsg, wdup, wat, readers, writer>>
    /\ UNCHANGED <<dedupVars, prodVars, safeVars>>

\* the EventSource c sees a response that is not an event stream (400 or
\* 429), or sees the response end after every event was handed over
SessionError(c) ==
    /\ c <= Len(WorkerSeq)
    /\ \/ pc[WorkerSeq[c]] \in {"rejected400", "rejected429"}
       \/ /\ wspc[WorkerSeq[c]] = "done"
          /\ delivered[WorkerSeq[c]] = wsent[WorkerSeq[c]]
    /\ onerror(c)

InitSession ==
    /\ InitHandler
    /\ InitWorkers
    /\ InitWriter
    /\ InitHook
    /\ InitSafe
    /\ endpoint = ValidEndpoint

\* the steps of the request handler of worker w that wait for nothing
RequestStep(w) == Lookup(w) \/ RUnlock(w) \/ Store(w) \/ Unlock(w)

\* the steps of the network and of the browser's event loop
ClientStep ==
    \E c \in 1..Len(esState) :
        SessionRequest(c) \/ SessionOpen(c) \/ Deliver(c) \/ SessionError(c)

NextSession ==
    \/ \E message \in UserTexts : SessionSend(message)
    \/ \E c \in 1..Len(esState) : SessionRequest(c)
    \/ \E c \in 1..Len(esState) : SessionOpen(c)
    \/ \E c \in 1..Len(esState) : Deliver(c)
    \/ \E c \in 1..Len(esState) : SessionError(c)
    \/ SweepLock
    \/ SweepUnlock
    \/ \E w \in Workers : RLock(w)
    \/ \E w \in Workers : Lookup(w)
    \/ \E w \in Workers : RUnlock(w)
    \/ \E w \in Workers : Lock(w)
    \/ \E w \in Workers : Store(w)
    \/ \E w \in Workers : Unlock(w)
    \/ \E w \in Workers : WStart(w)
    \/ \E w \in Workers : WWrite(w)
    \/ \E w \in Workers : WReturn(w)
    \/ \E w \in Workers : WDeferred(w)

SpecSession == InitSession /\ [][NextSession]_vars

\* every goroutine keeps being scheduled, a goroutine waiting for the mutex
\* gets it (sync.Mutex hands a starving waiter the lock), and the browser
\* keeps dispatching the events of its EventSources
SpecSessionFair ==
    /\ SpecSession
    /\ WF_vars(ClientStep)
    /\ WF_vars(SweepUnlock)
    /\ \A w \in Workers : /\ WF_vars(RequestStep(w))
                          /\ SF_vars(RLock(w))
                          /\ SF_vars(Lock(w))
                          /\ WF_vars(WStep(w))
\* ------------------------------------------------------------------------
\* C6: the number of connections opened never exceeds the number of
\* sendMessage calls that were not ignored; reconnect(), the event handlers
\* and the transport callbacks never open a connection (the hook starts no
\* timer).
\* ------------------------------------------------------------------------
C6_NoAutoReconnect ==
    /\ Len(esState) <= nSend
    /\ last.op # "sendMessage" => Len(esState) = last.opened
    /\ reconnectTimeoutRef = FALSE

\* reconnect() called after a stream ended with a terminal event
C6_Witness ==
    /\ last.op = "reconnect"
    /\ nStart >= 1
    /\ ~isStreaming
    /\ Len(esState) = 1
    /\ esState[1] = "CLOSED"

StreamMessages ==
    LET target == IF inStream THEN currentMessageIdRef ELSE last.target
    IN {i \in 1..Len(messages) : messages[i].id = target}

C8_ContentIsConcatenation ==
    (inStream \/ (last.inStream /\ last.op \in {"STREAMING_END", "ERROR"})) =>
        /\ Cardinality(StreamMessages) = 1
        /\ \A i \in StreamMessages : messages[i].content = expected

\* a text that arrived in two chunks, the second one just handled
C8_Witness ==
    /\ inStream
    /\ last.op = "TEXT_MESSAGE_CONTENT"
    /\ last.payload = <<"b">>
    /\ expected = <<"a", "b">>

\* the same text arrived in one chunk and its stream has ended
C8_WitnessOneChunk ==
    /\ last.op = "STREAMING_END"
    /\ last.inStream
    /\ nText = 1
    /\ expected = <<"a", "b">>

\* ------------------------------------------------------------------------
\* C9: when the transport reports an error, the consumer sets a
\* connection-lost error state, sets isStreaming and isConnected to false,
\* closes and releases the handle and opens no connection.
\* ------------------------------------------------------------------------
C9_TransportError ==
    last.op = "onerror" =>
        /\ connectionError # undefined
        /\ ~isStreaming
        /\ ~isConnected
        /\ eventSourceRef = 0
        /\ esState[last.es] = "CLOSED"
        /\ Len(esState) = last.opened

C11_ReconnectFrame ==
    last.op = "reconnect" =>
        /\ eventSourceRef = 0
        /\ last.es # 0 => esState[last.es] = "CLOSED"
        /\ reconnectTimeoutRef = FALSE
        /\ ~isConnected
        /\ error = undefined
        /\ connectionError = undefined
        /\ Len(esState) = last.opened
        /\ \A c \in 1..Len(esState) : c # last.es => esState[c] = last.states[c]
        /\ messages = last.log

\* reconnect() called on an open connection in the middle of a stream
C11_Witness ==
    /\ last.op = "reconnect"
    /\ last.es # 0
    /\ last.states[last.es] = "OPEN"
    /\ last.connected
    /\ last.inStream
    /\ Len(last.log) >= 2

\* reconnect() called after an ERROR event left the error state set
C11_WitnessAfterError ==
    /\ last.op = "reconnect"
    /\ last.error # undefined

\* ------------------------------------------------------------------------
\* C12: a frame that does not parse, or whose event has an unknown type, is
\* skipped: the message log, the accumulation target and text, the
\* streaming flag, both error states and the connection are as before; the
\* frames that follow in the same stream are still folded into the message.
\* ------------------------------------------------------------------------
SkippedOps == {"skip", "STATE_UPDATE"}

C12_SkippedFrame ==
    /\ last.op \in SkippedOps =>
          /\ messages = last.log
          /\ currentMessageIdRef = last.target
          /\ currentMessageRef = last.content
          /\ isStreaming = last.streaming
          /\ error = last.error
          /\ connectionError = last.connectionError
          /\ eventSourceRef = last.es
          /\ isConnected = last.connected
          /\ esState = last.states
    /\ (skipped /\ (inStream \/ (last.inStream /\ last.op \in Terminal))) =>
          \A i \in StreamMessages : messages[i].content = expected

\* a stream in which a frame was skipped and a chunk was folded ended with
\* STREAMING_END
C12_Witness ==
    /\ skipped
    /\ last.op = "STREAMING_END"
    /\ last.inStream
    /\ expected # <<>>
    /\ \E i \in StreamMessages : messages[i].content = expected

\* a frame skipped in the middle of a stream on an open connection
C12_WitnessSkip ==
    /\ last.op \in SkippedOps
    /\ last.inStream
    /\ last.content # <<>>
    /\ esState[last.es] = "OPEN"

\* ------------------------------------------------------------------------
\* C16: when a terminal event (STREAMING_END or ERROR) of a stream has been
\* handled, the assistant message of that stream has isStreaming = false,
\* also when the stream ended with ERROR before a chunk with isComplete.
\* ------------------------------------------------------------------------
C16_MessageNotStreaming ==
    (last.op \in Terminal /\ last.inStream) =>
        \A i \in StreamMessages : ~messages[i].isStreaming

\* ------------------------------------------------------------------------
\* C17: during a stream and when its terminal event has been handled, the
\* activities of the stream's message are the union of the activities of
\* the ACTIVITIES_FOUND events handled for it, and its images the union of
\* the images of the IMAGES_LOADED events handled for it.
\* ------------------------------------------------------------------------
Field(msg, k) == IF k \in DOMAIN msg THEN Range(msg[k]) ELSE {}

C17_UnionOfBatches ==
    (inStream \/ (last.inStream /\ last.op \in Terminal)) =>
        \A i \in StreamMessages :
            /\ Field(messages[i], "activities") = gotActivities
            /\ Field(messages[i], "images") = gotImages

\* ------------------------------------------------------------------------
\* C20 as stated: a TEXT_MESSAGE_CONTENT event sets the message's flag to
\* the negation of isComplete and leaves the global isStreaming flag,
\* isConnected and the handle as they were; these three change only when
\* STREAMING_END, ERROR or a transport error is handled.
\* ------------------------------------------------------------------------
C20_TextFrame ==
    last.op = "TEXT_MESSAGE_CONTENT" =>
        /\ isStreaming = last.streaming
        /\ isConnected = last.connected
        /\ eventSourceRef = last.es
        /\ esState = last.states
        /\ \A i \in 1..Len(messages) :
              messages[i].id = currentMessageIdRef
              => messages[i].isStreaming = ~last.complete

RECURSIVE JoinBySpaces(_)
\* the words joined by single spaces, as text pieces
JoinBySpaces(words) ==
    IF words = <<>> THEN <<>>
    ELSE IF Len(words) = 1 THEN <<words[1]>>
    ELSE <<words[1], " ">> \o JoinBySpaces(Tail(words))

\* the assistant messages of the store
AssistantMessages == {i \in 1..Len(messages) : messages[i].type = "assistant"}

\* the state the exchange of the EventSource c ends in
SessionCompleted(c) ==
    /\ c <= Len(esState)
    /\ esState[c] = "CLOSED"
    /\ eventSourceRef = 0
    /\ ~isStreaming
    /\ ~isConnected
    /\ error = undefined
    /\ connectionError = undefined
    /\ delivered[WorkerSeq[c]] = EventsToWrite(WorkerSeq[c])
    /\ Cardinality(AssistantMessages) = 1
    /\ \A i \in AssistantMessages :
          /\ messages[i].isStreaming = FALSE
          /\ messages[i].content =
                JoinBySpaces(Fields(generateResponse(UserTextOf(c))))

\* an accepted stream whose message is the last one sent shows no
\* connection error, whatever the writer and the transport have done
C14_NoConnectionLost ==
    \A c \in 1..Len(esState) :
        (c <= Len(WorkerSeq) /\ nSend = c /\ pc[WorkerSeq[c]] = "streaming")
            => connectionError = undefined

C14_EndToEnd ==
    /\ []C14_NoConnectionLost
    /\ \A c \in 1..Len(WorkerSeq) :
          (/\ pc[WorkerSeq[c]] = "streaming"
           /\ delivered[WorkerSeq[c]] < EventsToWrite(WorkerSeq[c]))
              ~> SessionCompleted(c)

\* the writer has returned, the response has ended and the exchange is in
\* its final state with the two words and the space between them
C14_Witness ==
    /\ SessionCompleted(1)
    /\ wspc[WorkerSeq[1]] = "done"
    /\ last.op = "STREAMING_END"
    /\ \E i \in AssistantMessages : Len(messages[i].content) >= 3

\* ------------------------------------------------------------------------
\* C15: when the request of the last message sent was answered 429 and the
\* hook has handled the failed connection, the chat interface shows the
\* duplicate message notice, which offers no retry or reconnect action.
\* ------------------------------------------------------------------------
\* the "error" text of the 429 response body
DuplicateBody ==
    "Duplicate message sent too quickly. Please wait before sending the same message again."

\* String.prototype.includes, for the texts the interface can be given
Includes(text, part) ==
    CASE text = DuplicateBody -> part = "Duplicate message"
      [] text = "Too Many Requests" -> part = "Too Many Requests"
      [] OTHER -> FALSE

\* a || b of two values that are a non-empty string or undefined
Or(a, b) == IF a # undefined THEN a ELSE b

\* const combinedError = error || connectionError
combinedError == Or(error, connectionError)

\* const hasError = chatError || connectionError, where connectionError is
\* the error the hook returns
hasError == Or(error, combinedError)

null == "null"

\* ErrorDisplay: what is rendered, null when nothing is
ErrorDisplay(hasErr, connected, err) ==
    IF ~hasErr THEN null
    ELSE IF ~connected
         THEN [title |-> "Connection Issue", action |-> "Retry Connection"]
    ELSE IF err # undefined /\ Includes(err, "Duplicate message")
         THEN [title |-> "Duplicate Message", action |-> null]
    ELSE IF err # undefined /\ Includes(err, "Too Many Requests")
         THEN [title |-> "Rate Limited", action |-> null]
    ELSE [title |-> "Error", action |-> "Retry"]

\* <ErrorDisplay hasError={!!hasError} isConnected={isConnected}
\*               error={hasError} onReconnect={reconnect} />
Rendered == ErrorDisplay(hasError # undefined, isConnected, hasError)

\* the request of the EventSource c was answered 429, the hook has handled
\* the failure and nothing was sent since
DuplicateHandled(c) ==
    /\ c <= Len(WorkerSeq)
    /\ nSend = c
    /\ pc[WorkerSeq[c]] = "rejected429"
    /\ esState[c] = "CLOSED"
    /\ last.op = "onerror"

C15_DuplicateNotice ==
    \A c \in 1..Len(esState) :
        DuplicateHandled(c) =>
            Rendered = [title |-> "Duplicate Message", action |-> null]

\* ------------------------------------------------------------------------
\* C21: the TEXT_MESSAGE_CONTENT events written are, in order, one per word
\* of the generated response: each but the last carries the word and one
\* space with isComplete false, the last carries the word alone with
\* isComplete true.  When no write failed, the writer leaves the word loop
\* with one event for every word, and the contents concatenated are the
\* words joined by single spaces.
\* ------------------------------------------------------------------------
TextEvents(evs) == SelectSeq(evs, LAMBDA e : e.type = "TEXT_MESSAGE_CONTENT")

RECURSIVE Concat(_)
\* the contents of a sequence of text events, concatenated
Concat(evs) == IF evs = <<>> THEN <<>> ELSE Head(evs).content \o Concat(Tail(evs))

\* the writer is past its word loop
PastWordLoop == spc \in {"end", "flush_end", "deferred", "done"}

C21_OnePerToken ==
    LET texts == TextEvents(written)
        words == Fields(generateResponse(stext))
    IN /\ Len(texts) <= Len(words)
       /\ \A i \in 1..Len(texts) :
             /\ texts[i].content = (IF i < Len(words) THEN <<words[i], " ">>
                                                      ELSE <<words[i]>>)
             /\ texts[i].isComplete = (i = Len(words))
       /\ Cardinality({i \in 1..Len(texts) : texts[i].isComplete}) <= 1
       /\ (PastWordLoop /\ sfail = "none" /\ swords # <<>>) =>
             /\ Len(texts) = Len(words)
             /\ Concat(texts) = JoinBySpaces(words)

\* a writer that returned after writing every word of a response of at
\* least two words
C21_Witness ==
    /\ spc = "done"
    /\ sfail = "none"
    /\ Len(TextEvents(written)) = Len(Fields(generateResponse(stext)))
    /\ Len(TextEvents(written)) >= 2
    /\ written[Len(written)].type = "STREAMING_END"

\* ------------------------------------------------------------------------
\* C22: the active-tools set holds exactly the tool names whose latest tool
\* event was a TOOL_EXECUTION_START; a tool event leaves the message log,
\* the streaming flag, the errors and the connection as they were.
\* ------------------------------------------------------------------------
ToolOps == {"TOOL_EXECUTION_START", "TOOL_EXECUTION_END"}

C22_ActiveTools ==
    /\ toolExecutions = {n \in ToolNames : toolLast[n] = "TOOL_EXECUTION_START"}
    /\ last.op \in ToolOps =>
          /\ messages = last.log
          /\ isStreaming = last.streaming
          /\ esState = last.states
          /\ eventSourceRef = last.es
          /\ isConnected = last.connected
          /\ error = last.error
          /\ connectionError = last.connectionError

\* one tool ended after it started while another is still running, and the
\* event handled last was a tool event
C22_Witness ==
    /\ last.op = "TOOL_EXECUTION_END"
    /\ \E n \in ToolNames : toolLast[n] = "TOOL_EXECUTION_END" /\ n \notin toolExecutions
    /\ \E n \in ToolNames : n \in toolExecutions
    /\ Len(messages) >= 2

\* ------------------------------------------------------------------------
\* C23: a sweep deletes exactly the entries recorded more than Window
\* seconds ago: none of them remains afterwards and every other entry is
\* kept as it was.  An entry isRecentMessage reports as recent is never
\* deleted, so the swept map answers every request, now or later, as the
\* map that was never swept.
\* ------------------------------------------------------------------------
\* the entries of a map recorded at most Window seconds before t
NotOlder(map, t) == {k \in DOMAIN map : t - map[k] <= Window}

C23_SweepExact ==
    Sweep =>
        /\ DOMAIN recentMessages' = NotOlder(recentMessages, now)
        /\ \A k \in DOMAIN recentMessages' : recentMessages'[k] = recentMessages[k]
        /\ \A k \in DOMAIN recentMessages :
              isRecentMessage(recentMessages, k, now) => k \in DOMAIN recentMessages'

\* lastAccepted holds every accepted text with its latest time and is never
\* swept
C23_SameOutcome ==
    \A message \in RawMessages : \A t \in now..MaxTime :
        StreamChatStatus(recentMessages, message, t)
            = StreamChatStatus(lastAccepted, message, t)

C23_SweepNeutral == []C23_SameOutcome /\ [][C23_SweepExact]_vars

\* a sweep has deleted the entry of one text, recorded Window + 1 seconds
\* ago, and kept the entry of another, recorded Window seconds ago
C23_Witness ==
    /\ \E k \in DOMAIN lastAccepted :
          /\ k \notin DOMAIN recentMessages
          /\ now - lastAccepted[k] = Window + 1
    /\ \E k \in DOMAIN recentMessages : now - recentMessages[k] = Window

\* ------------------------------------------------------------------------
\* C25: a SafeEventSource schedules at most config.maxReconnectAttempts
\* reconnections in its lifetime, none when that value is 0; an error
\* handled after that many errors schedules nothing; at most one of its
\* timers is pending.
\* ------------------------------------------------------------------------
C25_ScheduleLimit ==
    /\ sesScheduled <= sesMax
    /\ Cardinality(sesTimers) <= 1
    /\ (sesLast.op = "error" /\ sesLast.attempts >= sesMax) =>
          sesScheduled = sesLast.scheduled

\* ------------------------------------------------------------------------
\* C24: after reconnect() or the unmount cleanup of the hook, and after
\* close() or destroy() of a SafeEventSource, no EventSource is held or
\* left open and no reconnect timer is pending; the next connection is
\* opened by a sendMessage or connect() call, never by a timer or by an
\* error callback.
\* ------------------------------------------------------------------------
HookTeardowns == {"reconnect", "unmount"}
SafeTeardowns == {"close", "destroy"}

C24_Released ==
    /\ last.op \in HookTeardowns =>
          /\ eventSourceRef = 0
          /\ ~reconnectTimeoutRef
          /\ \A c \in 1..Len(esState) : esState[c] = "CLOSED"
    /\ sesLast.op \in SafeTeardowns =>
          /\ sesSource = 0
          /\ sesTimeout = 0
          /\ sesTimers = {}
          /\ \A c \in 1..Len(sesStates) : sesStates[c] = "CLOSED"

C24_OpenedExplicitly ==
    /\ (last.op \in HookTeardowns /\ last' # last) =>
          /\ last'.op \in HookTeardowns \cup {"sendMessage"}
          /\ Len(esState') > Len(esState) => last'.op = "sendMessage"
    /\ (sesLast.op \in SafeTeardowns /\ sesLast' # sesLast) =>
          /\ sesLast'.op \in SafeTeardowns \cup {"connect"}
          /\ Len(sesStates') > Len(sesStates) => sesLast'.op = "connect"

C24_Teardown == []C24_Released /\ [][C24_OpenedExplicitly]_vars

\* reconnect() ran while the hook held a connection, and close() ran while
\* a reconnect timer of the SafeEventSource was pending
C24_Witness ==
    /\ last.op = "reconnect"
    /\ last.es # 0
    /\ sesLast.op = "close"
    /\ sesLast.timers # {}

\* the component unmounted while the hook held an open connection, and
\* destroy() ran while the SafeEventSource held one
C24_WitnessUnmount ==
    /\ last.op = "unmount"
    /\ last.es # 0
    /\ last.states[last.es] = "OPEN"
    /\ sesLast.op = "destroy"
    /\ sesLast.source # 0

\* ------------------------------------------------------------------------
\* C26: a call of detectEventSourceLoop returns true exactly when more
\* than 5 calls for its url, the call itself included, were made in the
\* current time window; calls for other urls and in earlier windows do not
\* count; after the call the map holds keys of the current window only.
\* ------------------------------------------------------------------------
C26_LoopDetected ==
    loopResult.url # "" =>
        /\ loopResult.flagged =
              (GetCount(loopCalls, <<loopResult.url, loopResult.window>>) > 5)
        /\ \A k \in DOMAIN eventCounts : k[2] = loopResult.window

\* ------------------------------------------------------------------------
\* C27: whenever the consumer holds no connection after a terminal event,
\* a transport error or reconnect(), the next sendMessage call is not
\* ignored; no state is reached in which every later sendMessage call is
\* ignored.
\* ------------------------------------------------------------------------
ReleasingOps == {"STREAMING_END", "ERROR", "onerror", "reconnect"}

C27_SendAccepted ==
    (last.op \in ReleasingOps /\ eventSourceRef = 0) =>
        ~sendMessageIgnored(isStreaming)

\* ------------------------------------------------------------------------
\* C28: an EventSource of the hook that is not closed is the one the hook
\* holds, so at most one is open or opening; a sendMessage call that opens
\* a connection has closed the one held before.
\* ------------------------------------------------------------------------
C28_OneConnection ==
    /\ \A c \in 1..Len(esState) : esState[c] # "CLOSED" => c = eventSourceRef
    /\ (last.op = "sendMessage" /\ Len(esState) > last.opened /\ last.es # 0) =>
          /\ esState[last.es] = "CLOSED"
          /\ eventSourceRef = Len(esState)

\* a sendMessage call that found an open connection and replaced it
C28_Witness ==
    /\ last.op = "sendMessage"
    /\ last.es # 0
    /\ last.states[last.es] = "OPEN"
    /\ Len(esState) = last.opened + 1
    /\ eventSourceRef = Len(esState)
    /\ esState[eventSourceRef] = "CONNECTING"

\* ------------------------------------------------------------------------
\* C29: every operation of the hook keeps the messages of the log in place
\* with their ids and types.  A sendMessage call that is not ignored
\* appends one user message, also when no connection can be opened;
\* STREAMING_START appends one assistant message; ERROR appends one error
\* message; every other operation appends nothing.  A message that changed
\* is one whose id was the accumulation target.
\* ------------------------------------------------------------------------
\* the type of the one message the operation appended, <<>> when none
Appended(op, streaming) ==
    CASE op = "sendMessage" /\ ~streaming -> <<"user">>
      [] op = "STREAMING_START"           -> <<"assistant">>
      [] op = "ERROR"                     -> <<"error">>
      [] OTHER                            -> <<>>

C29_AppendOnly ==
    /\ Len(messages) = Len(last.log) + Len(Appended(last.op, last.streaming))
    /\ \A i \in 1..Len(last.log) :
          /\ i <= Len(messages)
          /\ messages[i].id = last.log[i].id
          /\ messages[i].type = last.log[i].type
          /\ messages[i] # last.log[i] => last.log[i].id = last.target
    /\ Appended(last.op, last.streaming) # <<>> =>
          /\ Len(messages) >= 1
          /\ messages[Len(messages)].type = Appended(last.op, last.streaming)[1]

\* a user message appended by a sendMessage call that could open no
\* connection, on a log that already holds a message
C29_Witness ==
    /\ last.op = "sendMessage"
    /\ ~EndpointHasProtocol(endpoint)
    /\ Len(last.log) >= 1
    /\ Len(messages) = Len(last.log) + 1
    /\ Len(esState) = last.opened

\* a chunk folded into the accumulating message, which stands behind the
\* user message in the log
C29_WitnessUpdate ==
    /\ last.op = "TEXT_MESSAGE_CONTENT"
    /\ \E i \in 2..Len(last.log) : messages[i] # last.log[i]

\* ------------------------------------------------------------------------
\* C30: while the hook is mounted, isConnected implies that an EventSource
\* is held; isConnected becomes true only in the open callback of the
\* EventSource held.
\* ------------------------------------------------------------------------
C30_ConnectedHoldsHandle ==
    /\ isConnected => eventSourceRef # 0
    /\ (isConnected /\ ~last.connected) =>
          /\ last.op = "onopen"
          /\ last.es # 0
          /\ last.states[last.es] = "CONNECTING"
          /\ esState[last.es] = "OPEN"

\* the handle was released by a transport error on an open connection
C30_Witness ==
    /\ last.op = "onerror"
    /\ last.connected
    /\ last.es # 0
    /\ ~isConnected
    /\ eventSourceRef = 0

============================================================================
